---- MODULE Spec2Model ----
(***************************************************************************)
(* Model of the factor mining control loop of src/factor_mining.py         *)
(* (FactorMiningSystem.mine_factors and the methods it calls).             *)
(*                                                                         *)
(* One action per step of mine_factors at which the loop calls a           *)
(* collaborator (catalog, generator, evaluator, file system).  The         *)
(* collaborators' answers are drawn nondeterministically from the          *)
(* outcomes their code can produce.  The control flow that follows a call  *)
(* without another call in between (the while tests, the checkpoint test,  *)
(* continue, break, the except clauses) is part of the action of the call. *)
(***************************************************************************)
EXTENDS Integers, Sequences, FiniteSets, TLC

(***************************************************************************)
(* Configuration (FACTOR_MINING_CONFIG), scaled down.  The source values   *)
(* are max_iterations = 10, max_factors = 100, save_interval = 10.         *)
(***************************************************************************)
max_factors == 3
max_iterations == 2
save_interval == 2

\* min_sharpe = 1.5 of FACTOR_MINING_CONFIG, in tenths.
min_sharpe == 15

\* 'limit': 50, the page size of get_datafields
limit == 50

\* The largest number of fields of a dataset.
MaxCount == 120

(***************************************************************************)
(* Values                                                                  *)
(***************************************************************************)
NoDataset == "no_dataset"
\* '' of generate_initial_factor / generate_next_factor: no expression.
NoExpr == [dataset |-> NoDataset, hist |-> -1]
\* {} of simulate_factor / check_factor: no report.
NoReport == [alpha |-> NoExpr, fields_of |-> NoDataset]

\* The catalogs search_datasets_limited can answer with: datasets_info['results'].
Catalogs == { <<>>, <<"d1", "d2">> }

\* The 'selected_dataset' of the generator's answer: an id of the catalog or
\* another id; "malformed" is an answer without the expected keys.
Suggestions == {"d1", "d2", "dX", "malformed"}

\* What get_datafields returns: the JSON string of the fields, or the empty
\* pandas DataFrame of a failed first page.
FieldOutcomes == {"json", "empty_dataframe"}

\* is.checks of a check report: no entry, or a first entry with this value
\* (in tenths).  A report without the keys reads as value 0.
ChecksOutcomes == { <<>>, <<0>>, <<15>> }

VARIABLES
    pc,             \* the call mine_factors makes next
    datasets_info,  \* self.datasets_info['results']
    current_dataset,\* self.current_dataset
    dataset,        \* local dataset of mine_factors
    factor_expr,    \* local factor_expr
    next_factor,    \* local next_factor
    sim_result,     \* local sim_result
    iteration,      \* local iteration
    mined_factors,  \* self.mined_factors
    saves,          \* the calls of save_factors so far
    event,          \* how the last call ended
    rounds,         \* generate_next_factor calls since the last seed was appended
    cycle_dataset,  \* what select_dataset returned in the running outer cycle
    selection,      \* the generator's answer to the last select_dataset request
    history_arg,    \* previous_factors of the last generate_next request
    config,         \* FACTOR_MINING_CONFIG as mine_factors reads it
    \* simulate_factor's field-name normalization, taken on its own
    n_pc,           \* "idle", "loop" (in the for loop), "submitted"
    n_fields,       \* the ids of fields_data, in the order of the catalog
    n_input,        \* factor_expr as passed to simulate_factor
    n_expr,         \* local factor_expr of simulate_factor
    n_idx,          \* position of the for loop in field_map.items()
    \* get_datafields, one call of it
    df_pc,          \* "idle", "first", "pages", "convert", "returned"
    count,          \* the number of fields the service holds for the dataset
    total_count,    \* local total_count
    all_results,    \* local all_results
    offset,         \* params['offset'] of the next page request
    df_failed,      \* which request failed: "none", "first", "later"
    df_return       \* what the call handed back

mainVars == <<pc, datasets_info, current_dataset, dataset, factor_expr, next_factor,
              sim_result, iteration, mined_factors, saves, event, rounds,
              cycle_dataset, selection, history_arg, config>>

normVars == <<n_pc, n_fields, n_input, n_expr, n_idx>>

pageVars == <<df_pc, count, total_count, all_results, offset, df_failed, df_return>>

\* What mine_factors' own steps leave alone.
unitVars == <<normVars, pageVars>>

vars == <<mainVars, unitVars>>

(***************************************************************************)
(* Collaborator answers.  An expression is known by the context the        *)
(* generator was given for it: the dataset and the length of the history.  *)
(* A simulation report is known by the expression submitted and the        *)
(* dataset whose fields simulate_factor looked up.                          *)
(***************************************************************************)
Expression(ds, history) == [dataset |-> ds, hist |-> Len(history)]

SimReport(expr, ds) == [alpha |-> expr, fields_of |-> ds]

CheckReport(alpha_id, checks) == [alpha |-> alpha_id, checks |-> checks]

\* bool(fields_json) raises ValueError for a DataFrame ("truth value is ambiguous").
TruthTestRaises(fields) == fields = "empty_dataframe"

(***************************************************************************)
(* select_dataset                                                          *)
(***************************************************************************)
\* AIClient.select_dataset: a malformed answer is replaced by the first id.
SelectedId(catalog, suggestion) ==
    IF suggestion = "malformed" THEN catalog[1] ELSE suggestion

\* Variant of ResolveDataset: an id that is not found falls back to the last entry.
ResolveDatasetLast(catalog, selected_id) ==
    IF \E i \in 1..Len(catalog) : catalog[i] = selected_id
    THEN selected_id
    ELSE catalog[Len(catalog)]

\* FactorMiningSystem.select_dataset: the entry with that id, else the first.
ResolveDataset(catalog, selected_id) ==
    IF \E i \in 1..Len(catalog) : catalog[i] = selected_id
    THEN selected_id
    ELSE catalog[1]

(***************************************************************************)
(* Control flow of mine_factors between two calls                          *)
(***************************************************************************)
\* while len(self.mined_factors) < max_factors; after the loop comes the last save.
WhileTest(mf) == IF Len(mf) < config.max_factors THEN "select" ELSE "final_save"

\* Variant of Continue: a failed seed phase leaves the outer loop.
ContinueAsBreak(mf) == "final_save"

\* continue of a failed seed phase.
Continue(mf) == WhileTest(mf)

\* break of the outer except clause.
OuterBreak == "final_save"

\* if len(self.mined_factors) >= max_factors: break
TermTest(mf) == IF Len(mf) >= config.max_factors THEN "final_save" ELSE WhileTest(mf)

\* Python's a % b for b # 0: the result has the sign of b.
PyMod(a, b) == IF b > 0 THEN a % b ELSE -((-a) % (-b))

\* len(self.mined_factors) % 0 raises ZeroDivisionError, inside the try.
CheckpointRaises == config.save_interval = 0

\* Variant of Checkpoint: saves once the count has reached the interval.
CheckpointAtLeast(mf) ==
    IF Len(mf) >= config.save_interval THEN "periodic_save" ELSE TermTest(mf)

\* if len(self.mined_factors) % save_interval == 0: self.save_factors()
Checkpoint(mf) ==
    IF CheckpointRaises THEN OuterBreak
    ELSE IF PyMod(Len(mf), config.save_interval) = 0 THEN "periodic_save"
    ELSE TermTest(mf)

\* Variant of InnerBreak: leaving the sub-loop leaves the outer loop too.
InnerBreakEndsRun(mf) == OuterBreak

\* Variant of InnerBreak: a failed step is followed by a new simulation.
InnerBreakRetry(mf) ==
    IF Len(mf) = Len(mined_factors) THEN "sim_next" ELSE Checkpoint(mf)

\* Variant of InnerBreak: the break passes over the checkpoint test.
InnerBreakPastCheckpoint(mf) == TermTest(mf)

\* break of the improvement sub-loop (also of its except clause).
InnerBreak(mf) == Checkpoint(mf)

\* Variant of InnerWhile: one more round is allowed.
InnerWhileInclusive(it, mf) ==
    IF it <= config.max_iterations THEN "gen_next" ELSE Checkpoint(mf)

\* while iteration < max_iterations
InnerWhile(it, mf) == IF it < config.max_iterations THEN "gen_next" ELSE Checkpoint(mf)

\* Variant of NextIteration: the round counter is not advanced.
NextIterationStuck(it) == it

\* iteration += 1
NextIteration(it) == it + 1

\* Variant of PreviousFactors: only the last record is handed over.
PreviousFactorsLast(mf) == <<mf[Len(mf)]>>

\* self.generate_next_factor(self.mined_factors): the history handed over.
PreviousFactors(mf) == mf

\* Variant of FactorInfo: the record is labelled with the first catalog entry.
FactorInfoFirstEntry(expr, sim, chk, ds) ==
    [expression |-> expr, simulation |-> sim, check |-> chk,
     dataset |-> datasets_info[1]]

\* Variant of FactorInfo: the record holds the seed's expression.
FactorInfoSeedExpr(expr, sim, chk, ds) ==
    [expression |-> factor_expr, simulation |-> sim, check |-> chk, dataset |-> ds]

\* factor_info = {'expression', 'simulation', 'check', 'dataset'}
FactorInfo(expr, sim, chk, ds) ==
    [expression |-> expr, simulation |-> sim, check |-> chk, dataset |-> ds]

\* check_result.get('is', {}).get('checks', [{}])[0] raises IndexError on [].
ScoreRaises(chk) == chk.checks = <<>>

\* ...[0].get('value', 0)
PrimaryScore(chk) == chk.checks[1]

\* Variant of Accepts: a score equal to min_sharpe is not accepted.
AcceptsStrict(score) == score > min_sharpe

\* ... >= min_sharpe
Accepts(score) == score >= min_sharpe

\* The outer cycle is over when control is back at the while test.
CycleDataset(next_pc, ds) ==
    IF next_pc \in {"select", "final_save"} THEN NoDataset ELSE ds

(***************************************************************************)
(* simulate_factor: field-name normalization.  A string is a sequence of   *)
(* characters; the letters are a/A and b/B, "(" stands for every other     *)
(* character.                                                              *)
(***************************************************************************)
MaxExprLen == 3

Chars == {"a", "A", "b", "B", "("}

\* The field ids a catalog may hold.
FieldIds ==
    { <<"a">>, <<"A">>, <<"b">>, <<"a", "b">>, <<"A", "B">>, <<"b", "A">>, <<"A", "a">> }

\* fields_data: one or two fields.
FieldLists == {<<f>> : f \in FieldIds} \cup {<<f, g>> : f \in FieldIds, g \in FieldIds}

\* The expressions the generator may produce.
Expressions == UNION { [1..n -> Chars] : n \in 1..MaxExprLen }

LowerChar(c) == CASE c = "A" -> "a" [] c = "B" -> "b" [] OTHER -> c

\* str.lower()
LowerStr(str) == [i \in 1..Len(str) |-> LowerChar(str[i])]

\* sub in str, for a non-empty sub
Contains(str, sub) ==
    \E i \in 1..(Len(str) - Len(sub) + 1) : SubSeq(str, i, i + Len(sub) - 1) = sub

\* str.replace(old, new): every non-overlapping occurrence, from the left.
RECURSIVE Replace(_, _, _)
Replace(str, old, new) ==
    IF Len(str) < Len(old) THEN str
    ELSE IF SubSeq(str, 1, Len(old)) = old
         THEN new \o Replace(SubSeq(str, Len(old) + 1, Len(str)), old, new)
         ELSE <<str[1]>> \o Replace(Tail(str), old, new)

\* field_map = {field['id'].lower(): field for field in fields_data}, as the
\* sequence of its items: a key keeps the place of its first insertion and
\* holds the last field inserted under it.
RECURSIVE FieldMapFrom(_, _)
FieldMapFrom(fields, i) ==
    IF i > Len(fields) THEN <<>>
    ELSE LET key == LowerStr(fields[i])
             seen == \E j \in 1..(i - 1) : LowerStr(fields[j]) = key
             last == CHOOSE j \in i..Len(fields) :
                        /\ LowerStr(fields[j]) = key
                        /\ \A k \in (j + 1)..Len(fields) : LowerStr(fields[k]) # key
         IN  IF seen THEN FieldMapFrom(fields, i + 1)
             ELSE <<[key |-> key, id |-> fields[last]]>> \o FieldMapFrom(fields, i + 1)

FieldMap(fields) == FieldMapFrom(fields, 1)

\* if field_id in factor_expr.lower():
\*     factor_expr = factor_expr.replace(field_id, field_info['id'])
NormalizeWith(expr, item) ==
    IF Contains(LowerStr(expr), item.key) THEN Replace(expr, item.key, item.id) ELSE expr

\* The whole for loop over field_map.items(), from the item at position i on.
RECURSIVE NormalizeFrom(_, _, _)
NormalizeFrom(expr, items, i) ==
    IF i > Len(items) THEN expr
    ELSE NormalizeFrom(NormalizeWith(expr, items[i]), items, i + 1)

\* The expression simulate_factor submits for factor_expr under fields_data.
Normalize(expr, fields) == NormalizeFrom(expr, FieldMap(fields), 1)

NormIdle ==
    /\ n_pc = "idle"
    /\ n_fields = <<>>
    /\ n_input = <<>>
    /\ n_expr = <<>>
    /\ n_idx = 0

\* simulate_factor entered with an expression, the fields fetched and parsed.
NormEntry ==
    /\ n_pc = "loop"
    /\ n_fields \in FieldLists
    /\ n_input \in Expressions
    /\ n_expr = n_input
    /\ n_idx = 1

\* One iteration of the for loop over field_map.items().
NormalizeField ==
    /\ n_pc = "loop"
    /\ n_idx <= Len(FieldMap(n_fields))
    /\ n_expr' = NormalizeWith(n_expr, FieldMap(n_fields)[n_idx])
    /\ n_idx' = n_idx + 1
    /\ UNCHANGED <<n_pc, n_fields, n_input>>
    /\ UNCHANGED <<mainVars, pageVars>>

\* alpha = {..., 'regular': factor_expr}; resp = await self.wqbs.simulate(alpha)
SubmitAlpha ==
    /\ n_pc = "loop"
    /\ n_idx > Len(FieldMap(n_fields))
    /\ n_pc' = "submitted"
    /\ UNCHANGED <<n_fields, n_input, n_expr, n_idx>>
    /\ UNCHANGED <<mainVars, pageVars>>

(***************************************************************************)
(* ExtendedWQBSession.get_datafields: the first page tells the count, the  *)
(* other pages are asked for in steps of limit.  Field records are the     *)
(* numbers 1..count, in the order the service lists them.                  *)
(***************************************************************************)

NoReturn == [kind |-> "none", records |-> <<>>]

Min(a, b) == IF a <= b THEN a ELSE b

\* The 'results' of the page of the service at the offset off.
Page(cnt, off) ==
    IF off >= cnt THEN <<>> ELSE [i \in 1..Min(limit, cnt - off) |-> off + i]

\* pd.DataFrame(all_results).loc[:, [...]].to_json(orient='records'): the
\* column selection raises KeyError on a frame made of no records.
ToJson(results) ==
    IF results = <<>>
    THEN [kind |-> "KeyError", records |-> <<>>]
    ELSE [kind |-> "json", records |-> results]

\* for offset in range(50, total_count, 50): is there a page left to ask for?
PagesLeft(off, total) == off < total

\* What a call returns when every request succeeds.
RECURSIVE RemainingPages(_, _, _)
RemainingPages(cnt, off, results) ==
    IF PagesLeft(off, cnt)
    THEN RemainingPages(cnt, off + limit, results \o Page(cnt, off))
    ELSE results

CompleteResult(cnt) == ToJson(RemainingPages(cnt, limit, Page(cnt, 0)))

PageIdle ==
    /\ df_pc = "idle"
    /\ count = 0
    /\ total_count = 0
    /\ all_results = <<>>
    /\ offset = 0
    /\ df_failed = "none"
    /\ df_return = NoReturn

\* get_datafields entered for a dataset of some number of fields.
PageEntry ==
    /\ df_pc = "first"
    /\ count \in 0..MaxCount
    /\ total_count = 0
    /\ all_results = <<>>
    /\ offset = 0
    /\ df_failed = "none"
    /\ df_return = NoReturn

\* first_page = self.get(base_url, params=params)
FirstPage ==
    /\ df_pc = "first"
    /\ \E ok \in BOOLEAN :
         IF ok
         THEN /\ total_count' = count
              /\ all_results' = Page(count, 0)
              /\ offset' = limit
              /\ df_pc' = IF PagesLeft(limit, count) THEN "pages" ELSE "convert"
              /\ UNCHANGED <<df_failed, df_return>>
         ELSE \* return pd.DataFrame()
              /\ df_return' = [kind |-> "empty_frame", records |-> <<>>]
              /\ df_failed' = "first"
              /\ df_pc' = "returned"
              /\ UNCHANGED <<total_count, all_results, offset>>
    /\ UNCHANGED count
    /\ UNCHANGED <<mainVars, normVars>>

\* page = self.get(base_url, params=params), in the for loop
NextPage ==
    /\ df_pc = "pages"
    /\ \E ok \in BOOLEAN :
         IF ok
         THEN /\ all_results' = all_results \o Page(count, offset)
              /\ offset' = offset + limit
              /\ df_pc' = IF PagesLeft(offset + limit, total_count)
                          THEN "pages" ELSE "convert"
              /\ UNCHANGED df_failed
         ELSE \* break
              /\ df_failed' = "later"
              /\ df_pc' = "convert"
              /\ UNCHANGED <<all_results, offset>>
    /\ UNCHANGED <<count, total_count, df_return>>
    /\ UNCHANGED <<mainVars, normVars>>

\* return pd.DataFrame(all_results).loc[...].to_json(orient='records')
ReturnJson ==
    /\ df_pc = "convert"
    /\ df_return' = ToJson(all_results)
    /\ df_pc' = "returned"
    /\ UNCHANGED <<count, total_count, all_results, offset, df_failed>>
    /\ UNCHANGED <<mainVars, normVars>>

(***************************************************************************)
(* Init: the state after FactorMiningSystem.__init__, at the entry of      *)
(* mine_factors.                                                           *)
(***************************************************************************)
MainEntry ==
    /\ pc = "initialize"
    /\ datasets_info = <<>>
    /\ current_dataset = NoDataset
    /\ dataset = NoDataset
    /\ factor_expr = NoExpr
    /\ next_factor = NoExpr
    /\ sim_result = NoReport
    /\ iteration = 0
    /\ mined_factors = <<>>
    /\ saves = <<>>
    /\ event = "none"
    /\ rounds = 0
    /\ cycle_dataset = NoDataset
    /\ selection = "none"
    /\ history_arg = <<>>

\* FACTOR_MINING_CONFIG of config_local.py, and no arguments to mine_factors.
FACTOR_MINING_CONFIG ==
    [max_factors |-> max_factors, max_iterations |-> max_iterations,
     save_interval |-> save_interval]

\* What a configuration file or a caller of mine_factors can supply.
Configs ==
    [max_factors : {-1, 0, max_factors}, max_iterations : {-1, 0, max_iterations},
     save_interval : {-1, 0, save_interval}]

MainInit == MainEntry /\ config = FACTOR_MINING_CONFIG

(***************************************************************************)
(* await self.initialize(): outside the try of mine_factors.               *)
(***************************************************************************)
Initialize ==
    /\ pc = "initialize"
    /\ \/ \E cat \in Catalogs :
            /\ datasets_info' = cat
            /\ pc' = WhileTest(mined_factors)
            /\ event' = "ok"
       \/ /\ pc' = "raised"
          /\ event' = "uncaught"
          /\ UNCHANGED datasets_info
    /\ UNCHANGED <<current_dataset, dataset, factor_expr, next_factor, sim_result,
                   iteration, mined_factors, saves, rounds, cycle_dataset, selection>>
    /\ UNCHANGED <<unitVars, history_arg, config>>

(***************************************************************************)
(* dataset = await self.select_dataset()                                   *)
(***************************************************************************)
SelectDataset ==
    /\ pc = "select"
    /\ \/ /\ datasets_info = <<>>
          \* datasets_info['results'][0] raises IndexError
          /\ pc' = OuterBreak
          /\ event' = "outer_exc"
          /\ UNCHANGED <<current_dataset, dataset, cycle_dataset, selection>>
       \/ /\ datasets_info # <<>>
          /\ \E s \in Suggestions :
                LET d == ResolveDataset(datasets_info, SelectedId(datasets_info, s))
                IN  /\ current_dataset' = d
                    /\ dataset' = d
                    /\ cycle_dataset' = d
                    /\ selection' = s
          /\ pc' = "gen_seed"
          /\ event' = "ok"
    /\ UNCHANGED <<datasets_info, factor_expr, next_factor, sim_result, iteration,
                   mined_factors, saves, rounds>>
    /\ UNCHANGED <<unitVars, history_arg, config>>

(***************************************************************************)
(* factor_expr = await self.generate_initial_factor()                      *)
(***************************************************************************)
GenerateSeed ==
    /\ pc = "gen_seed"
    /\ \E fields \in FieldOutcomes :
          \/ /\ TruthTestRaises(fields)
             \* ValueError leaves generate_initial_factor: outer except
             /\ pc' = OuterBreak
             /\ event' = "outer_exc"
             /\ UNCHANGED factor_expr
          \/ /\ ~TruthTestRaises(fields)
             /\ factor_expr' = NoExpr
             /\ pc' = Continue(mined_factors)
             /\ event' = "empty"
          \/ /\ ~TruthTestRaises(fields)
             /\ factor_expr' = Expression(current_dataset, <<>>)
             /\ pc' = "sim_seed"
             /\ event' = "ok"
    /\ cycle_dataset' = CycleDataset(pc', cycle_dataset)
    /\ UNCHANGED <<datasets_info, current_dataset, dataset, next_factor, sim_result,
                   iteration, mined_factors, saves, rounds, selection>>
    /\ UNCHANGED <<unitVars, history_arg, config>>

(***************************************************************************)
(* sim_result = await self.simulate_factor(factor_expr)                    *)
(* simulate_factor catches every exception and returns {}.                 *)
(***************************************************************************)
SimulateSeed ==
    /\ pc = "sim_seed"
    /\ \/ /\ sim_result' = NoReport
          /\ pc' = Continue(mined_factors)
          /\ event' = "empty"
       \/ /\ sim_result' = SimReport(factor_expr, current_dataset)
          /\ pc' = "check_seed"
          /\ event' = "ok"
    /\ cycle_dataset' = CycleDataset(pc', cycle_dataset)
    /\ UNCHANGED <<datasets_info, current_dataset, dataset, factor_expr, next_factor,
                   iteration, mined_factors, saves, rounds, selection>>
    /\ UNCHANGED <<unitVars, history_arg, config>>

(***************************************************************************)
(* check_result = await self.check_factor(alpha_id); append; iteration = 0 *)
(***************************************************************************)
CheckSeed ==
    /\ pc = "check_seed"
    /\ \/ /\ pc' = Continue(mined_factors)
          /\ event' = "empty"
          /\ UNCHANGED <<mined_factors, iteration, rounds>>
       \/ \E checks \in ChecksOutcomes :
            LET chk == CheckReport(sim_result.alpha, checks)
                mf  == Append(mined_factors,
                              FactorInfo(factor_expr, sim_result, chk, dataset))
            IN  /\ mined_factors' = mf
                /\ iteration' = 0
                /\ rounds' = 0
                /\ pc' = InnerWhile(0, mf)
                /\ event' = "ok"
    /\ cycle_dataset' = CycleDataset(pc', cycle_dataset)
    /\ UNCHANGED <<datasets_info, current_dataset, dataset, factor_expr, next_factor,
                   sim_result, saves, selection>>
    /\ UNCHANGED <<unitVars, history_arg, config>>

(***************************************************************************)
(* next_factor = await self.generate_next_factor(self.mined_factors)       *)
(* Inside the try of the improvement sub-loop.                             *)
(***************************************************************************)
GenerateNext ==
    /\ pc = "gen_next"
    /\ rounds' = rounds + 1
    /\ \E fields \in FieldOutcomes :
          \/ /\ TruthTestRaises(fields)
             \* ValueError leaves generate_next_factor: inner except, break
             /\ pc' = InnerBreak(mined_factors)
             /\ event' = "inner_exc"
             /\ UNCHANGED <<next_factor, history_arg>>
          \/ /\ ~TruthTestRaises(fields)
             /\ next_factor' = NoExpr
             /\ history_arg' = PreviousFactors(mined_factors)
             /\ pc' = InnerBreak(mined_factors)
             /\ event' = "empty"
          \/ /\ ~TruthTestRaises(fields)
             /\ next_factor' = Expression(current_dataset, PreviousFactors(mined_factors))
             /\ history_arg' = PreviousFactors(mined_factors)
             /\ pc' = "sim_next"
             /\ event' = "ok"
    /\ cycle_dataset' = CycleDataset(pc', cycle_dataset)
    /\ UNCHANGED <<datasets_info, current_dataset, dataset, factor_expr, sim_result,
                   iteration, mined_factors, saves, selection>>
    /\ UNCHANGED <<unitVars, config>>

(***************************************************************************)
(* sim_result = await self.simulate_factor(next_factor)                    *)
(***************************************************************************)
SimulateNext ==
    /\ pc = "sim_next"
    /\ \/ /\ sim_result' = NoReport
          /\ pc' = InnerBreak(mined_factors)
          /\ event' = "empty"
       \/ /\ sim_result' = SimReport(next_factor, current_dataset)
          /\ pc' = "check_next"
          /\ event' = "ok"
    /\ cycle_dataset' = CycleDataset(pc', cycle_dataset)
    /\ UNCHANGED <<datasets_info, current_dataset, dataset, factor_expr, next_factor,
                   iteration, mined_factors, saves, rounds, selection>>
    /\ UNCHANGED <<unitVars, history_arg, config>>

(***************************************************************************)
(* check_result = await self.check_factor(alpha_id); append; score test    *)
(***************************************************************************)
CheckNext ==
    /\ pc = "check_next"
    /\ \/ /\ pc' = InnerBreak(mined_factors)
          /\ event' = "empty"
          /\ UNCHANGED <<mined_factors, iteration>>
       \/ \E checks \in ChecksOutcomes :
            LET chk == CheckReport(sim_result.alpha, checks)
                mf  == Append(mined_factors,
                              FactorInfo(next_factor, sim_result, chk, dataset))
            IN  /\ mined_factors' = mf
                /\ IF ScoreRaises(chk)
                   THEN \* IndexError: inner except, break
                        /\ pc' = InnerBreak(mf)
                        /\ event' = "inner_exc"
                        /\ UNCHANGED iteration
                   ELSE IF Accepts(PrimaryScore(chk))
                   THEN /\ pc' = InnerBreak(mf)
                        /\ event' = "ok"
                        /\ UNCHANGED iteration
                   ELSE /\ iteration' = NextIteration(iteration)
                        /\ pc' = InnerWhile(iteration', mf)
                        /\ event' = "ok"
    /\ cycle_dataset' = CycleDataset(pc', cycle_dataset)
    /\ UNCHANGED <<datasets_info, current_dataset, dataset, factor_expr, next_factor,
                   sim_result, saves, rounds, selection>>
    /\ UNCHANGED <<unitVars, history_arg, config>>

(***************************************************************************)
(* save_factors: one entry per call, with the number of records handed to  *)
(* json.dump, whether the file was written, and the second of              *)
(* datetime.now() that names the file.                                     *)
(***************************************************************************)
SaveCall(mf, final, ok, second) ==
    [count |-> Len(mf), final |-> final, ok |-> ok, second |-> second]

\* datetime.now() of a call: the clock still shows the second of the call
\* before, or a later one.
ClockSeconds(log) ==
    IF log = <<>> THEN {0} ELSE {log[Len(log)].second, log[Len(log)].second + 1}

\* filename = f'factors_{timestamp}.json' with timestamp = %Y%m%d_%H%M%S
Filename(call) == call.second

\* self.save_factors() of the checkpoint test, inside the outer try.
PeriodicSave ==
    /\ pc = "periodic_save"
    /\ \E second \in ClockSeconds(saves) :
          \/ /\ saves' = Append(saves, SaveCall(mined_factors, FALSE, TRUE, second))
             /\ pc' = TermTest(mined_factors)
             /\ event' = "ok"
          \/ \* open or json.dump raises: outer except, break
             /\ saves' = Append(saves, SaveCall(mined_factors, FALSE, FALSE, second))
             /\ pc' = OuterBreak
             /\ event' = "outer_exc"
    /\ cycle_dataset' = CycleDataset(pc', cycle_dataset)
    /\ UNCHANGED <<datasets_info, current_dataset, dataset, factor_expr, next_factor,
                   sim_result, iteration, mined_factors, rounds, selection>>
    /\ UNCHANGED <<unitVars, history_arg, config>>

\* self.save_factors() after the loop, outside every try.
FinalSave ==
    /\ pc = "final_save"
    /\ \E second \in ClockSeconds(saves) :
          \/ /\ saves' = Append(saves, SaveCall(mined_factors, TRUE, TRUE, second))
             /\ pc' = "done"
             /\ event' = "ok"
          \/ /\ saves' = Append(saves, SaveCall(mined_factors, TRUE, FALSE, second))
             /\ pc' = "raised"
             /\ event' = "uncaught"
    /\ UNCHANGED <<datasets_info, current_dataset, dataset, factor_expr, next_factor,
                   sim_result, iteration, mined_factors, rounds, cycle_dataset,
                   selection>>
    /\ UNCHANGED <<unitVars, history_arg, config>>

\* mine_factors as a whole; the normalization is not looked into.
Init == MainInit /\ NormIdle /\ PageIdle

Next ==
    \/ Initialize
    \/ SelectDataset
    \/ GenerateSeed
    \/ SimulateSeed
    \/ CheckSeed
    \/ GenerateNext
    \/ SimulateNext
    \/ CheckNext
    \/ PeriodicSave
    \/ FinalSave

Spec == Init /\ [][Next]_vars

\* Every collaborator call returns and the controller goes on to its next step.
FairSpec == Spec /\ WF_vars(Next)

\* The normalization of simulate_factor for every field list and expression.
NormInit == MainInit /\ NormEntry /\ PageIdle

NormNext ==
    \/ NormalizeField
    \/ SubmitAlpha

NormSpec == NormInit /\ [][NormNext]_vars

\* One call of get_datafields for every count and every failing request.
PageInit == MainInit /\ NormIdle /\ PageEntry

PageNext ==
    \/ FirstPage
    \/ NextPage
    \/ ReturnJson

PageSpec == PageInit /\ [][PageNext]_vars

\* mine_factors under every configuration.
ConfigInit == MainEntry /\ config \in Configs /\ NormIdle /\ PageIdle

ConfigSpec == ConfigInit /\ [][Next]_vars

(***************************************************************************)
(* Properties                                                              *)
(***************************************************************************)
Ended == pc \in {"done", "raised"}

SeedPcs == {"gen_seed", "sim_seed", "check_seed"}

SubLoopPcs == {"gen_next", "sim_next", "check_next"}

LastRecord(mf) == mf[Len(mf)]

\* C1: when the run has ended, mined_factors holds at most max_factors records.
C1_FinalCountWithinCap ==
    Ended => Len(mined_factors) <= max_factors

\* C2: when the run has ended, on whatever path, the last thing it did was a
\* run-end call of save_factors with the accumulated records.
C2_RunEndsWithSave ==
    Ended => /\ Len(saves) > 0
             /\ saves[Len(saves)].final
             /\ saves[Len(saves)].count = Len(mined_factors)

\* C3: after an exception was caught by the outer except clause with fewer than
\* max_factors records, the controller is at a new SelectDataset step.
C3_OuterExceptionAbortsCycleOnly ==
    (event = "outer_exc" /\ Len(mined_factors) < max_factors) => pc = "select"

\* C4: once the record count has reached a multiple k * save_interval (k >= 1)
\* and moved on, save_factors was called with that count.
C4_EveryMultipleSaved ==
    \A k \in 1..Len(mined_factors) :
        k * save_interval < Len(mined_factors)
            => \E i \in 1..Len(saves) : saves[i].count = k * save_interval

\* C5: every call of save_factors other than the run-end call, which is the
\* last call, is made with a record count that is a positive multiple of
\* save_interval.
C5_PeriodicSavesAtMultiples ==
    \A i \in 1..Len(saves) :
        /\ saves[i].final => i = Len(saves)
        /\ ~saves[i].final => /\ saves[i].count > 0
                              /\ saves[i].count % save_interval = 0

\* C5 witness: a periodic save was made and the count has since moved on to a
\* value that is no multiple, without another save.
C5_Witness ==
    /\ Len(saves) = 1
    /\ ~saves[1].final
    /\ saves[1].count = save_interval
    /\ Len(mined_factors) % save_interval # 0

\* C6: per accepted seed the improvement sub-loop runs at most max_iterations
\* iterations, so generate_next_factor is called at most max_iterations times.
C6_RoundsBounded ==
    /\ rounds <= max_iterations
    /\ iteration <= rounds

\* C6 witness: a seed whose sub-loop ran all its max_iterations rounds, each of
\* them appending a record below min_sharpe.
C6_Witness ==
    /\ rounds = max_iterations
    /\ iteration = max_iterations
    /\ pc \notin SubLoopPcs

\* C7: when the check report of a revised candidate has a primary score
\* >= min_sharpe, its record is appended and the sub-loop is left in the same
\* step: no further generate, simulate or check call follows for that seed.
C7_AcceptEndsSubLoop ==
    [][ (/\ pc = "check_next"
         /\ Len(mined_factors') = Len(mined_factors) + 1
         /\ LastRecord(mined_factors').check.checks # <<>>
         /\ LastRecord(mined_factors').check.checks[1] >= min_sharpe)
        => /\ pc' \notin SubLoopPcs
           /\ LastRecord(mined_factors').expression = next_factor
           /\ rounds' = rounds /\ iteration' = iteration ]_vars

\* C7 witness: the last record is a revision with a score >= min_sharpe and
\* the controller has left the sub-loop before using up its rounds.
C7_Witness ==
    /\ Len(mined_factors) >= 2
    /\ LastRecord(mined_factors).expression.hist > 0
    /\ LastRecord(mined_factors).check.checks = <<min_sharpe>>
    /\ rounds = 1
    /\ pc \notin SubLoopPcs

\* C8: a record is appended with the dataset select_dataset chose in the
\* running outer cycle, which is current_dataset and the dataset its expression
\* was generated and evaluated with; records already appended never change.
C8_RecordDatasetIsCycleDataset ==
    [][ /\ Len(mined_factors') >= Len(mined_factors)
        /\ \A i \in 1..Len(mined_factors) : mined_factors'[i] = mined_factors[i]
        /\ Len(mined_factors') > Len(mined_factors)
            => /\ Len(mined_factors') = Len(mined_factors) + 1
               /\ cycle_dataset # NoDataset
               /\ LastRecord(mined_factors').dataset = cycle_dataset
               /\ current_dataset = cycle_dataset
               /\ LastRecord(mined_factors').expression.dataset = cycle_dataset
               /\ LastRecord(mined_factors').simulation.fields_of = cycle_dataset
               /\ LastRecord(mined_factors').simulation.alpha
                     = LastRecord(mined_factors').expression ]_vars

\* C8 witness: a later outer cycle has selected another dataset than the one
\* of the first record and has appended a seed and a revision of its own.
C8_Witness ==
    /\ Len(mined_factors) >= 3
    /\ mined_factors[1].dataset = "d2"
    /\ mined_factors[2].dataset = "d1"
    /\ LastRecord(mined_factors).dataset = "d1"
    /\ LastRecord(mined_factors).expression.hist > 0
    /\ current_dataset = "d1"

\* C9: a seed phase step that returns empty (no expression, no report with an
\* alpha id, no check result) leaves mined_factors as it is and leads to a new
\* SelectDataset, not into the sub-loop; no record is appended in a cycle
\* before the seed's check.
C9_SeedFailureSkipsCycle ==
    [][ /\ (pc \in SeedPcs /\ event' = "empty")
            => (mined_factors' = mined_factors /\ pc' = "select")
        /\ pc \in {"select", "gen_seed", "sim_seed"}
            => mined_factors' = mined_factors ]_vars

\* C9 witness: with records present, generate_initial_factor has returned no
\* expression and the controller is back at SelectDataset.
C9_Witness ==
    /\ pc = "select"
    /\ event = "empty"
    /\ factor_expr = NoExpr
    /\ Len(mined_factors) >= 1

\* C10: a failed collaborator call of an outer cycle (field lookup, generator,
\* simulate, check) never ends the run while fewer than max_factors records
\* are held.
C10_CollaboratorFailureNeverEndsRun ==
    [][ (/\ pc \in SeedPcs \cup SubLoopPcs
         /\ event' \in {"empty", "inner_exc", "outer_exc"}
         /\ Len(mined_factors') < max_factors)
        => pc' \in {"select", "periodic_save"} ]_vars

\* C11: after select_dataset, current_dataset is the catalog entry with the
\* suggested id if the catalog has one, and the first catalog entry if the id
\* is not in the catalog or the generator's answer is malformed; the cycle
\* goes on with it.
C11_SelectFallsBackToFirst ==
    selection # "none" =>
        /\ datasets_info # <<>>
        /\ IF \E i \in 1..Len(datasets_info) : datasets_info[i] = selection
           THEN current_dataset = selection
           ELSE current_dataset = datasets_info[1]
        /\ selection = "malformed" => current_dataset = datasets_info[1]
        /\ dataset = current_dataset
        /\ pc = "gen_seed" => (event = "ok" /\ cycle_dataset = current_dataset)

\* C11 witness: the generator suggested an id the catalog does not have, and
\* the cycle has gone on to evaluate a seed for the first catalog entry.
C11_Witness ==
    /\ selection = "dX"
    /\ current_dataset = datasets_info[1]
    /\ pc = "sim_seed"
    /\ factor_expr.dataset = datasets_info[1]

\* The places of n_input where the id of field f stands in some casing.
OccursAt(f, i) ==
    /\ i \in 1..(Len(n_input) - Len(f) + 1)
    /\ LowerStr(SubSeq(n_input, i, i + Len(f) - 1)) = LowerStr(f)

\* No other field of the catalog has an occurrence that overlaps this one.
Unambiguous(f, i) ==
    \A k \in 1..Len(n_fields) : \A j \in 1..Len(n_input) :
        (n_fields[k] # f /\ OccursAt(n_fields[k], j))
            => (j + Len(n_fields[k]) <= i \/ i + Len(f) <= j)

\* C12: in the expression submitted to the backend, every occurrence of a
\* catalog field id written in another casing stands in the catalog's
\* canonical casing.
C12_SubmittedInCanonicalCasing ==
    n_pc = "submitted" =>
        \A k \in 1..Len(n_fields) : \A i \in 1..Len(n_input) :
            (/\ OccursAt(n_fields[k], i)
             /\ Unambiguous(n_fields[k], i)
             /\ SubSeq(n_input, i, i + Len(n_fields[k]) - 1) # n_fields[k])
                => SubSeq(n_expr, i, i + Len(n_fields[k]) - 1) = n_fields[k]

\* C13: no call of save_factors writes the file an earlier call of the run
\* has written.
C13_NoSnapshotOverwritten ==
    \A i \in 1..Len(saves) : \A j \in 1..Len(saves) :
        (i < j /\ saves[i].ok /\ saves[j].ok)
            => Filename(saves[i]) # Filename(saves[j])

\* C14: a record is appended only by the step in which check_factor returned
\* a result for the alpha id of the report that simulate_factor returned, in
\* the step before, for the expression generated in the step before that; the
\* record holds exactly that expression, report and check result.
C14_RecordAfterSimulateAndCheck ==
    [][ /\ Len(mined_factors') > Len(mined_factors)
            => /\ pc \in {"check_seed", "check_next"}
               /\ Len(mined_factors') = Len(mined_factors) + 1
               /\ sim_result # NoReport
               /\ LastRecord(mined_factors').simulation = sim_result
               /\ LastRecord(mined_factors').expression = sim_result.alpha
               /\ LastRecord(mined_factors').expression
                     = (IF pc = "check_seed" THEN factor_expr ELSE next_factor)
               /\ LastRecord(mined_factors').expression # NoExpr
               /\ LastRecord(mined_factors').check.alpha = sim_result.alpha
               /\ LastRecord(mined_factors').check.checks \in ChecksOutcomes
        /\ (pc' = "check_seed" /\ pc # "check_seed")
            => /\ pc = "sim_seed"
               /\ factor_expr' = factor_expr
               /\ sim_result'.alpha = factor_expr
               /\ sim_result'.fields_of = cycle_dataset
        /\ (pc' = "check_next" /\ pc # "check_next")
            => /\ pc = "sim_next"
               /\ next_factor' = next_factor
               /\ sim_result'.alpha = next_factor
               /\ sim_result'.fields_of = cycle_dataset
        /\ (pc' = "sim_seed" /\ pc # "sim_seed")
            => (pc = "gen_seed" /\ factor_expr' # NoExpr)
        /\ (pc' = "sim_next" /\ pc # "sim_next")
            => (pc = "gen_next" /\ next_factor' # NoExpr
                /\ next_factor'.hist = Len(mined_factors)) ]_vars

\* C14 witness: a revision has just been appended after its own simulation
\* and check, next to the seed's record.
C14_Witness ==
    /\ Len(mined_factors) = 2
    /\ pc = "gen_next"
    /\ rounds = 1
    /\ LastRecord(mined_factors).expression = next_factor
    /\ LastRecord(mined_factors).simulation = sim_result
    /\ LastRecord(mined_factors).expression # factor_expr
    /\ mined_factors[1].expression = factor_expr

\* C15: every revision request hands the generator the whole of
\* mined_factors as it stands at the call, and a revision in the sequence was
\* generated from all the records before it.
C15_WholeHistoryHandedOver ==
    [][ /\ (pc = "gen_next" /\ event' \in {"ok", "empty"})
            => /\ history_arg' = mined_factors
               /\ event' = "ok" => next_factor'.hist = Len(mined_factors)
        /\ Len(mined_factors') > Len(mined_factors)
            => \/ LastRecord(mined_factors').expression.hist = 0
               \/ /\ LastRecord(mined_factors').expression.hist = Len(mined_factors)
                  /\ history_arg = mined_factors ]_vars

\* C15 witness: a revision request made with four records, of two outer
\* cycles and two datasets, the last of them appended in the iteration before.
C15_Witness ==
    /\ pc = "sim_next"
    /\ Len(mined_factors) = 4
    /\ history_arg = mined_factors
    /\ next_factor.hist = 4
    /\ mined_factors[1].dataset # current_dataset
    /\ mined_factors[4].expression.hist = 3

\* C16: a call of get_datafields in which a page request failed returns what
\* the earlier pages gave, in a form no call without a failure returns; a call
\* without a failure returns all the records of the dataset.
C16_PartialFailureSignalled ==
    df_pc = "returned" =>
        /\ df_failed = "later" =>
              /\ df_return.records = all_results
              /\ \A c \in 0..MaxCount : df_return # CompleteResult(c)
        /\ (df_failed = "none" /\ count > 0) =>
              df_return = [kind |-> "json", records |-> [i \in 1..count |-> i]]

\* C17: under a configuration whose max_factors, max_iterations or
\* save_interval is not positive no outer cycle is ever begun.
C17_InvalidConfigNeverUsed ==
    (\/ config.max_factors <= 0
     \/ config.max_iterations <= 0
     \/ config.save_interval <= 0)
        => pc \in {"initialize", "raised", "final_save", "done"}

\* C18: in the improvement sub-loop a generate, simulate or check call that
\* returns empty appends no record, makes no further call for that seed and
\* leads to the checkpoint test of the same outer cycle (a save when the count
\* is a multiple of save_interval) and then to the termination test.
C18_SubLoopFailureEndsSubLoop ==
    [][ (pc \in SubLoopPcs /\ event' = "empty")
        => /\ mined_factors' = mined_factors
           /\ rounds' = IF pc = "gen_next" THEN rounds + 1 ELSE rounds
           /\ iteration' = iteration
           /\ pc' = IF Len(mined_factors) % save_interval = 0 THEN "periodic_save"
                    ELSE IF Len(mined_factors) >= max_factors THEN "final_save"
                    ELSE "select" ]_vars

\* C18 witness: in the second round of a seed the simulation of the revision
\* has failed; two records are held and the controller is at the periodic save.
C18_Witness ==
    /\ pc = "periodic_save"
    /\ event = "empty"
    /\ rounds = 2
    /\ sim_result = NoReport
    /\ next_factor # NoExpr
    /\ Len(mined_factors) = 2

\* C19: mined_factors never holds more than max_factors + max_iterations
\* records: a cycle starts below max_factors, appends one seed and at most
\* max_iterations revisions.
C19_OvershootBounded ==
    /\ Len(mined_factors) <= max_factors + max_iterations
    /\ pc \in SeedPcs => Len(mined_factors) < max_factors
    /\ pc \in SubLoopPcs => Len(mined_factors) <= max_factors + iteration

\* C19 witness: a cycle begun with max_factors - 1 records has appended its
\* seed and max_iterations revisions.
C19_Witness ==
    /\ Len(mined_factors) = max_factors + max_iterations
    /\ iteration = max_iterations
    /\ rounds = max_iterations

\* C20 as stated: mine_factors comes to its end, after a bounded number of
\* outer cycles that fail in the seed phase.
C20_RunEnds == <>Ended

\* C20: mine_factors comes to its end unless from some point on every outer
\* cycle fails in its seed phase; nothing bounds the number of such cycles.
C20_EndsUnlessSeedsKeepFailing ==
    <>Ended \/ <>[](pc \in {"select"} \cup SeedPcs)

\* C20 witness: the run has ended with max_factors records, the last of them
\* a seed, and with a written run-end save.
C20_Witness ==
    /\ pc = "done"
    /\ Len(mined_factors) = max_factors
    /\ LastRecord(saves).final
    /\ LastRecord(saves).ok
    /\ LastRecord(mined_factors).expression.hist = 0

\* A character of an identifier (a field id or an operator name).
IsLetter(c) == c # "("

\* n_input[i..j] is an identifier of the expression: a longest run of letters.
IsToken(i, j) ==
    /\ 1 <= i /\ i <= j /\ j <= Len(n_input)
    /\ \A k \in i..j : IsLetter(n_input[k])
    /\ i = 1 \/ ~IsLetter(n_input[i - 1])
    /\ j = Len(n_input) \/ ~IsLetter(n_input[j + 1])

\* Every identifier of the expression that names a field of the catalog is
\* written as the catalog writes it.
CanonicalCasing ==
    \A i \in 1..Len(n_input) : \A j \in i..Len(n_input) :
        IsToken(i, j) =>
            \A k \in 1..Len(FieldMap(n_fields)) :
                LowerStr(SubSeq(n_input, i, j)) = FieldMap(n_fields)[k].key
                    => SubSeq(n_input, i, j) = FieldMap(n_fields)[k].id

\* C21: the normalization leaves an expression in canonical casing as it is,
\* under every catalog, and normalizing the submitted expression once more
\* changes nothing.
C21_NormalizationStable ==
    n_pc = "submitted" =>
        /\ n_expr = Normalize(n_input, n_fields)
        /\ CanonicalCasing => n_expr = n_input
        /\ Normalize(n_expr, n_fields) = n_expr

\* C22: an exception raised inside an improvement iteration ends the sub-loop
\* only: the records held stay, the record appended before the score was read
\* included, and the same outer cycle goes on to its checkpoint test and then
\* to the termination test.
C22_InnerExceptionEndsSubLoopOnly ==
    [][ (pc \in SubLoopPcs /\ event' = "inner_exc")
        => /\ Len(mined_factors') = Len(mined_factors) + (IF pc = "check_next" THEN 1 ELSE 0)
           /\ \A i \in 1..Len(mined_factors) : mined_factors'[i] = mined_factors[i]
           /\ pc = "check_next" => LastRecord(mined_factors').expression = next_factor
           /\ pc' = IF Len(mined_factors') % save_interval = 0 THEN "periodic_save"
                    ELSE IF Len(mined_factors') >= max_factors THEN "final_save"
                    ELSE "select" ]_vars

\* C22 witness: the score of a revision's check report with no checks was
\* read; its record is the second of the sequence and the controller is at the
\* periodic save.
C22_Witness ==
    /\ pc = "periodic_save"
    /\ event = "inner_exc"
    /\ Len(mined_factors) = 2
    /\ LastRecord(mined_factors).check.checks = <<>>
    /\ LastRecord(mined_factors).expression = next_factor

====
